---------------------------- MODULE Spec2Model ----------------------------
(***************************************************************************)
(* A model of src/app.py, the YouTube transcript web viewer:               *)
(*   extract_video_id   the video-ID resolver (two regular expressions),   *)
(*   get_transcript     the proxy -> direct -> enumerate fallback chain,   *)
(*   format_transcript  the formatter with its MM:SS label,                *)
(*   watch, api_transcript   the HTML and JSON request handlers.           *)
(*                                                                         *)
(* A Python str is the sequence of its characters; a message built by an   *)
(* f-string is the concatenation of its literal pieces and its             *)
(* interpolated values.  Python's None is the one-element sequence None,   *)
(* whose element is no character.                                          *)
(***************************************************************************)
EXTENDS Integers, Sequences, FiniteSets, TLC

VARIABLES
    env,        \* os.environ['YOUTUBE_PROXY']: None (unset), "" or host:port
    pc,         \* position of the request being handled
    route,      \* "watch" or "api": the handler that took the request
    param,      \* request.args.get('v') (watch) or the <video_id> path part (api)
    video_id,   \* the value get_transcript is called with
    proxy,      \* get_transcript's local `proxy` (line 36)
    attempts,   \* the calls made on YouTubeTranscriptApi, in order
    logged,     \* what line 48 printed
    proxyErr,   \* str(e) of the exception caught at line 47
    directErr,  \* str(e) of the exception caught at line 54
    enumRes,    \* outcome of list_transcripts (line 57-58)
    fetchedBy,  \* the attempt whose transcript get_transcript returned
    resp,       \* the response the handler returned
    fn,         \* pure-function harness: the function applied
    fn_arg,     \* its argument
    fn_ret,     \* its result
    fn_pc       \* "call" before it is applied, "return" after

vars == <<env, pc, route, param, video_id, proxy, attempts, logged, proxyErr,
          directErr, enumRes, fetchedBy, resp, fn, fn_arg, fn_ret, fn_pc>>

reqVars == <<env, pc, route, param, video_id, proxy, attempts, logged,
             proxyErr, directErr, enumRes, fetchedBy, resp>>

fnVars == <<fn, fn_arg, fn_ret, fn_pc>>

--------------------------------------------------------------------------
(* Bounds of the model. *)

\* longest raw transcript drawn for format_transcript
MaxSegments == 3
\* start times are counted in 1/StartUnit seconds (a float start = ticks / StartUnit)
StartUnit == 4

(* Program constants. *)

\* {11} in the three regular expressions, and len(url_or_id) == 11
IdLen == 11

--------------------------------------------------------------------------
(* Python values. *)

None == <<"<None>">>

\* truthiness of an optional str: `if proxy:`, `if not video_id_param:`
Truthy(s) == s # None /\ s # <<>>

\* needle in hay: needle is a substring of hay
Contains(hay, needle) ==
    \E i \in 1..(Len(hay) - Len(needle) + 1) :
        SubSeq(hay, i, i + Len(needle) - 1) = needle

Min(S) == CHOOSE x \in S : \A y \in S : x <= y
Max(S) == CHOOSE x \in S : \A y \in S : x >= y

--------------------------------------------------------------------------
(* extract_video_id: the character class and the literals of the patterns. *)

LowerChars == {"a","b","c","d","e","f","g","h","i","j","k","l","m",
               "n","o","p","q","r","s","t","u","v","w","x","y","z"}
UpperChars == {"A","B","C","D","E","F","G","H","I","J","K","L","M",
               "N","O","P","Q","R","S","T","U","V","W","X","Y","Z"}
DigitChars == {"0","1","2","3","4","5","6","7","8","9"}

\* [a-zA-Z0-9_-]
IdChars == LowerChars \cup UpperChars \cup DigitChars \cup {"_", "-"}

LitYoutubeWatchV ==
    <<"y","o","u","t","u","b","e",".","c","o","m","/","w","a","t","c","h","?","v","=">>  \* youtube.com/watch?v=
LitYoutuBe ==
    <<"y","o","u","t","u",".","b","e","/">>  \* youtu.be/
LitYoutubeEmbed ==
    <<"y","o","u","t","u","b","e",".","c","o","m","/","e","m","b","e","d","/">>  \* youtube.com/embed/
LitYoutubeCom ==
    <<"y","o","u","t","u","b","e",".","c","o","m","/">>  \* youtube.com/
LitVEq ==
    <<"v","=">>  \* v=

\* the literal lit stands in s at position i
LitAt(s, i, lit) ==
    /\ i >= 1
    /\ i + Len(lit) - 1 <= Len(s)
    /\ \A k \in 1..Len(lit) : s[i + k - 1] = lit[k]

\* ([a-zA-Z0-9_-]{11}) matches in s at position i
IdAt(s, i) ==
    /\ i >= 1
    /\ i + IdLen - 1 <= Len(s)
    /\ \A k \in 0..(IdLen - 1) : s[i + k] \in IdChars

\* line 18: len(url_or_id) == 11 and re.match(r'^[a-zA-Z0-9_-]{11}$', url_or_id)
IsBareId(s) == Len(s) = IdLen /\ IdAt(s, 1)

\* line 23: the alternation of the first pattern, in the order written
Pattern1Prefixes == <<LitYoutubeWatchV, LitYoutuBe, LitYoutubeEmbed>>

\* the first alternative (0: none) with which the first pattern matches at i
Pattern1AltAt(s, i) ==
    LET ok == {a \in 1..Len(Pattern1Prefixes) :
                  /\ LitAt(s, i, Pattern1Prefixes[a])
                  /\ IdAt(s, i + Len(Pattern1Prefixes[a]))}
    IN  IF ok = {} THEN 0 ELSE Min(ok)

\* re.search(patterns[0], s).group(1), or None: the leftmost match
Search1(s) ==
    LET hits == {i \in 1..Len(s) : Pattern1AltAt(s, i) # 0}
    IN  IF hits = {} THEN None
        ELSE LET i == Min(hits)
                 p == i + Len(Pattern1Prefixes[Pattern1AltAt(s, i)])
             IN  SubSeq(s, p, p + IdLen - 1)

\* line 24: with the match begun at i, the places j where [?&]v=(ID) can stand:
\* after youtube.com/, with no line break in what .* spans
Pattern2EndsNoDelimiter(s, i) ==
    {j \in (i + Len(LitYoutubeCom) - 1)..Len(s) :
        /\ LitAt(s, j + 1, LitVEq)
        /\ IdAt(s, j + 1 + Len(LitVEq))
        /\ \A k \in (i + Len(LitYoutubeCom))..(j - 1) : s[k] # "\n"}
Pattern2Ends(s, i) ==
    {j \in (i + Len(LitYoutubeCom))..Len(s) :
        /\ s[j] \in {"?", "&"}
        /\ LitAt(s, j + 1, LitVEq)
        /\ IdAt(s, j + 1 + Len(LitVEq))
        /\ \A k \in (i + Len(LitYoutubeCom))..(j - 1) : s[k] # "\n"}

\* re.search(patterns[1], s).group(1), or None: the leftmost youtube.com/ that
\* leads to a match, and from it the greedy .* (the last [?&]v=ID)
Search2(s) ==
    LET hits == {i \in 1..Len(s) :
                    LitAt(s, i, LitYoutubeCom) /\ Pattern2Ends(s, i) # {}}
    IN  IF hits = {} THEN None
        ELSE LET j == Max(Pattern2Ends(s, Min(hits)))
                 p == j + 1 + Len(LitVEq)
             IN  SubSeq(s, p, p + IdLen - 1)

\* lines 15-32, with the branch that returned
extract_video_id_patterns_only(s) ==
    IF Search1(s) # None THEN [id |-> Search1(s), via |-> "pattern1"]
    ELSE IF Search2(s) # None THEN [id |-> Search2(s), via |-> "pattern2"]
    ELSE [id |-> None, via |-> "none"]
extract_video_id_via(s) ==
    IF IsBareId(s) THEN [id |-> s, via |-> "bare"]
    ELSE IF Search1(s) # None THEN [id |-> Search1(s), via |-> "pattern1"]
    ELSE IF Search2(s) # None THEN [id |-> Search2(s), via |-> "pattern2"]
    ELSE [id |-> None, via |-> "none"]

extract_video_id(s) == extract_video_id_via(s).id

--------------------------------------------------------------------------
(* format_transcript *)

DigitSeq == <<"0","1","2","3","4","5","6","7","8","9">>

\* the decimal digits of n >= 0
RECURSIVE Decimal(_)
Decimal(n) ==
    IF n < 10 THEN <<DigitSeq[n + 1]>>
    ELSE Decimal(n \div 10) \o <<DigitSeq[(n % 10) + 1]>>

\* f"{n:02d}" for n >= 0: at least two digits, zero-padded, never cut
Pad2(n) == IF n < 10 THEN <<"0">> \o Decimal(n) ELSE Decimal(n)

\* int(entry['start'] // 60), the start being ticks / StartUnit seconds
MinutesOfRollover(ticks) == (ticks \div (60 * StartUnit)) % 60
MinutesOf(ticks) == ticks \div (60 * StartUnit)

\* int(entry['start'] % 60)
SecondsOf(ticks) == (ticks % (60 * StartUnit)) \div StartUnit

\* line 70
formatted_time(ticks) == Pad2(MinutesOf(ticks)) \o <<":">> \o Pad2(SecondsOf(ticks))

\* lines 67-71: one entry
format_entry(entry) ==
    [time |-> entry.start,
     text |-> entry.text,
     formatted_time |-> formatted_time(entry.start)]

\* lines 63-72
format_transcript_reversed(list) ==
    [i \in 1..Len(list) |-> format_entry(list[Len(list) + 1 - i])]
format_transcript(list) ==
    [i \in 1..Len(list) |-> format_entry(list[i])]

--------------------------------------------------------------------------
(* The inputs drawn for extract_video_id. *)

SchemeHttps ==
    <<"h","t","t","p","s",":","/","/">>  \* https://
SchemeHttp ==
    <<"h","t","t","p",":","/","/">>  \* http://
HostWww ==
    <<"w","w","w",".">>  \* www.
HostMobile ==
    <<"m",".">>  \* m.
PathWatchQ ==
    <<"w","a","t","c","h","?">>  \* watch?
PathPlaylistQ ==
    <<"p","l","a","y","l","i","s","t","?">>  \* playlist?
PathWatchSlashQ ==
    <<"w","a","t","c","h","/","?">>  \* watch/?
PathAttribution ==
    <<"a","t","t","r","i","b","u","t","i","o","n","_","l","i","n","k","?","a","=","x","&","u","=","/","w","a","t","c","h","?">>  \* attribution_link?a=x&u=/watch?
ParamFeature ==
    <<"f","e","a","t","u","r","e","=","s","h","a","r","e">>  \* feature=share
ParamList ==
    <<"l","i","s","t","=","P","L","1">>  \* list=PL1
ParamAv ==
    <<"a","v","=","B","B","B","B","B","B","B","B","B","B","B">>  \* av=BBBBBBBBBBB
ParamShortV ==
    <<"v","=","s","h","o","r","t">>  \* v=short
TailTime ==
    <<"&","t","=","4","2","s">>  \* &t=42s
TailQuery ==
    <<"?","t","=","1","0">>  \* ?t=10
TailPath ==
    <<"/","e","x","t","r","a","/","p","a","t","h">>  \* /extra/path
TailList ==
    <<"&","l","i","s","t","=","P","L","1","&","i","n","d","e","x","=","2">>  \* &list=PL1&index=2
TailFragment ==
    <<"#","t","=","1","m">>  \* #t=1m
TailAv ==
    <<"&","a","v","=","B","B","B","B","B","B","B","B","B","B","B">>  \* &av=BBBBBBBBBBB
TailSlashQuery ==
    <<"/","?","s","i","=","a","b","c">>  \* /?si=abc
IdRick ==
    <<"d","Q","w","4","w","9","W","g","X","c","Q">>  \* dQw4w9WgXcQ
IdMixed ==
    <<"a","-","B","_","c","0","D","1","e","2","f">>  \* a-B_c0D1e2f
IdOther ==
    <<"B","B","B","B","B","B","B","B","B","B","B">>  \* BBBBBBBBBBB
IdRest ==
    <<"w","g","X","c","Q","_","9","-","0">>  \* wgXcQ_9-0
TextInvalid ==
    <<"n","o","t","-","a","-","v","a","l","i","d","-","i","d","-","o","r","-","u","r","l">>  \* not-a-valid-id-or-url
TextTenChars ==
    <<"d","Q","w","4","w","9","W","g","X","c">>  \* dQw4w9WgXc
TextTwelveChars ==
    <<"d","Q","w","4","w","9","W","g","X","c","Q","Q">>  \* dQw4w9WgXcQQ
TextDotted ==
    <<"d","Q","w","4","w",".","W","g","X","c","Q">>  \* dQw4w.WgXcQ
TextOtherSite ==
    <<"h","t","t","p","s",":","/","/","v","i","m","e","o",".","c","o","m","/","1","2","3","4","5","6","7","8","9","0","1">>  \* https://vimeo.com/12345678901
TextShortId ==
    <<"h","t","t","p","s",":","/","/","y","o","u","t","u",".","b","e","/","d","Q","w","4","w","9">>  \* https://youtu.be/dQw4w9

\* bare IDs: every two leading characters over a sample of the class, then IdRest
IdHeadChars == {"a", "Z", "7", "_", "-"}
BareIds ==
    {IdRick, IdMixed, IdOther}
        \cup {<<a, b>> \o IdRest : a \in IdHeadChars, b \in IdHeadChars}

\* the IDs embedded in URLs
UrlIds == {IdRick, IdMixed, <<"-", "_">> \o IdRest}

Schemes == {<<>>, SchemeHttps, SchemeHttp}

\* what stands before the ID in each supported URL shape
WatchStems == {h \o LitYoutubeWatchV : h \in {<<>>, HostWww, HostMobile}}
ShortStems == {LitYoutuBe}
EmbedStems == {h \o LitYoutubeEmbed : h \in {<<>>, HostWww}}
LooseStems ==
    {h \o LitYoutubeCom \o p \o q \o <<"&">> \o LitVEq :
        h \in {<<>>, HostWww},
        p \in {PathWatchQ, PathPlaylistQ},
        q \in {ParamFeature, ParamList, ParamAv, ParamShortV}}
    \cup {HostWww \o LitYoutubeCom \o p \o LitVEq :
            p \in {PathWatchSlashQ, PathAttribution}}
Stems == WatchStems \cup ShortStems \cup EmbedStems \cup LooseStems

\* what follows the ID: nothing, query parameters, trailing path segments
Tails == {<<>>, TailTime, TailQuery, TailPath, TailList, TailFragment, TailAv,
          TailSlashQuery}

\* a supported URL around one ID
Url(scheme, stem, id, tail) == scheme \o stem \o id \o tail

SupportedUrls ==
    {Url(c, s, i, t) : c \in Schemes, s \in Stems, i \in UrlIds, t \in Tails}

\* inputs that are neither a bare ID nor a supported URL
OtherInputs ==
    {<<>>, TextInvalid, TextTenChars, TextTwelveChars, TextDotted,
     TextOtherSite, TextShortId,
     LitYoutubeCom \o PathWatchQ \o ParamFeature \o <<"\n", "&">> \o LitVEq \o IdRick}

\* URLs that carry two IDs: the first pattern takes the leftmost, the second
\* pattern the last v= parameter
TwoIdUrls ==
    {LitYoutubeWatchV \o IdRick \o <<"&">> \o LitVEq \o IdMixed,
     HostWww \o LitYoutubeCom \o PathWatchQ \o ParamFeature
         \o <<"&">> \o LitVEq \o IdRick \o <<"&">> \o LitVEq \o IdMixed}

ResolverInputs == BareIds \cup SupportedUrls \cup OtherInputs \cup TwoIdUrls

--------------------------------------------------------------------------
(* The inputs drawn for format_transcript. *)

\* start times in ticks: 0 s, 59.x s, 65 s, 75 s, 3661 s, 6000 s (100 minutes)
StartTicks ==
    {0, 59 * StartUnit + (StartUnit - 1), 65 * StartUnit, 75 * StartUnit,
     3661 * StartUnit, 6000 * StartUnit}

Texts == {<<"a">>, <<"b">>}

RawEntries == [start : StartTicks, text : Texts]

RawTranscripts ==
    UNION {[1..n -> RawEntries] : n \in 0..MaxSegments}

--------------------------------------------------------------------------
(* The request variables while no request is handled. *)

NoValue == [kind |-> "none"]

RequestIdle ==
    /\ pc = "idle"
    /\ route = "none"
    /\ param = None
    /\ video_id = None
    /\ proxy = None
    /\ attempts = <<>>
    /\ logged = <<>>
    /\ proxyErr = None
    /\ directErr = None
    /\ enumRes = NoValue
    /\ fetchedBy = "none"
    /\ resp = NoValue

--------------------------------------------------------------------------
(* extract_video_id applied to one drawn input. *)

InitResolve ==
    /\ env = None
    /\ RequestIdle
    /\ fn = "extract_video_id"
    /\ fn_arg \in ResolverInputs
    /\ fn_ret = NoValue
    /\ fn_pc = "call"

CallExtract ==
    /\ fn = "extract_video_id"
    /\ fn_pc = "call"
    /\ fn_ret' = extract_video_id_via(fn_arg)
    /\ fn_pc' = "return"
    /\ UNCHANGED <<fn, fn_arg>>
    /\ UNCHANGED reqVars

SpecResolve == InitResolve /\ [][CallExtract]_vars

(* format_transcript applied to one drawn transcript. *)

InitFormat ==
    /\ env = None
    /\ RequestIdle
    /\ fn = "format_transcript"
    /\ fn_arg \in RawTranscripts
    /\ fn_ret = NoValue
    /\ fn_pc = "call"

CallFormat ==
    /\ fn = "format_transcript"
    /\ fn_pc = "call"
    /\ fn_ret' = format_transcript(fn_arg)
    /\ fn_pc' = "return"
    /\ UNCHANGED <<fn, fn_arg>>
    /\ UNCHANGED reqVars

SpecFormat == InitFormat /\ [][CallFormat]_vars

--------------------------------------------------------------------------
(* What a request and the transcript service can bring. *)

\* values of the YOUTUBE_PROXY environment variable
ProxyAddr ==
    <<"1","0",".","0",".","0",".","1",":","3","1","2","8">>  \* 10.0.0.1:3128
EnvValues == {None, <<>>, ProxyAddr}

\* request.args.get('v'): absent, empty, a bare ID, URLs, text that is neither
WatchParams ==
    {None, <<>>, IdRick, TextInvalid,
     Url(SchemeHttps, LitYoutuBe, IdRick, <<>>),
     Url(SchemeHttps, HostWww \o LitYoutubeWatchV, IdMixed, TailTime)}

\* the <video_id> part of /api/transcript/<video_id>: non-empty, without "/"
ApiParams == {IdRick, IdMixed, TextInvalid, TextTenChars}

\* transcripts YouTubeTranscriptApi.get_transcript can return
RawSamples ==
    {<<[start |-> 0, text |-> <<"a">>], [start |-> 75 * StartUnit, text |-> <<"b">>]>>,
     <<[start |-> 3661 * StartUnit, text |-> <<"b">>]>>}

\* str(e) of what each call can raise; a call's messages are its own, so that
\* a message found in a response tells which call it came from
ReasonProxyConnect ==
    <<"P","r","o","x","y","E","r","r","o","r",":"," ","c","a","n","n","o","t"," ","c","o","n","n","e","c","t"," ","t","o"," ","p","r","o","x","y">>  \* ProxyError: cannot connect to proxy
ReasonProxyTimeout ==
    <<"P","r","o","x","y","E","r","r","o","r",":"," ","t","i","m","e","d"," ","o","u","t">>  \* ProxyError: timed out
ReasonDisabled ==
    <<"T","r","a","n","s","c","r","i","p","t","s","D","i","s","a","b","l","e","d">>  \* TranscriptsDisabled
ReasonNotFound ==
    <<"N","o","T","r","a","n","s","c","r","i","p","t","F","o","u","n","d">>  \* NoTranscriptFound
ReasonUnavailable ==
    <<"V","i","d","e","o","U","n","a","v","a","i","l","a","b","l","e">>  \* VideoUnavailable
ReasonTooMany ==
    <<"T","o","o","M","a","n","y","R","e","q","u","e","s","t","s">>  \* TooManyRequests
ProxyReasons == {ReasonProxyConnect, ReasonProxyTimeout}
DirectReasons == {ReasonDisabled, ReasonNotFound}
EnumReasons == {ReasonUnavailable, ReasonTooMany}

\* language codes list_transcripts can enumerate
LangLists == {<< <<"e","s">>, <<"f","r">> >>, << <<"d","e">> >>}

\* outcomes of get_transcript(video_id, ...) and of list_transcripts(video_id)
FetchOutcomes(reasons) ==
    [kind : {"returned"}, transcript : RawSamples]
        \cup [kind : {"raised"}, reason : reasons]
EnumOutcomes ==
    [kind : {"langs"}, langs : LangLists]
        \cup [kind : {"raised"}, reason : EnumReasons]

--------------------------------------------------------------------------
(* The messages the program builds. *)

\* ', '.join(codes)
RECURSIVE Join(_)
Join(codes) ==
    IF codes = <<>> THEN <<>>
    ELSE IF Len(codes) = 1 THEN codes[1]
    ELSE codes[1] \o <<",", " ">> \o Join(Tail(codes))

\* line 48
LitProxyFailed ==
    <<"P","r","o","x","y"," ","f","a","i","l","e","d"," ","(">>  \* Proxy failed, an opening bracket
MsgProxyFailed(p, reason) ==
    LitProxyFailed \o p \o <<")", ":", " ">> \o reason

\* line 59
LitAvailable ==
    <<"C","o","u","l","d"," ","n","o","t"," ","g","e","t"," ","t","r","a","n","s","c","r","i","p","t","."," ","A","v","a","i","l","a","b","l","e"," ","l","a","n","g","u","a","g","e","s",":"," ">>  \* Could not get transcript. Available languages:
MsgAvailable(codes) ==
    LitAvailable \o Join(codes)

\* line 61
LitNoTranscript ==
    <<"N","o"," ","t","r","a","n","s","c","r","i","p","t"," ","a","v","a","i","l","a","b","l","e"," ","f","o","r"," ","v","i","d","e","o"," ">>  \* No transcript available for video
MsgNoTranscript(vid, reason) ==
    LitNoTranscript \o vid \o <<":", " ">> \o reason

\* line 86
MsgNoVideoId ==
    <<"N","o"," ","v","i","d","e","o"," ","I","D"," ","p","r","o","v","i","d","e","d","."," ","P","l","e","a","s","e"," ","u","s","e"," ","/","w","a","t","c","h","?","v","=","V","I","D","E","O","_","I","D">>  \* No video ID provided. Please use /watch?v=VIDEO_ID

\* line 92
MsgInvalidFormat ==
    <<"I","n","v","a","l","i","d"," ","v","i","d","e","o"," ","I","D"," ","f","o","r","m","a","t">>  \* Invalid video ID format

--------------------------------------------------------------------------
(* One request, from its arrival to its response. *)

Init ==
    /\ env \in EnvValues
    /\ RequestIdle
    /\ fn = "none"
    /\ fn_arg = None
    /\ fn_ret = NoValue
    /\ fn_pc = "none"

\* lines 80-92: /watch reads v, refuses a missing or unresolvable one, and
\* otherwise calls get_transcript with the resolved ID
Watch ==
    /\ pc = "idle"
    /\ \E v \in WatchParams :
        /\ route' = "watch"
        /\ param' = v
        /\ IF ~Truthy(v)
           THEN /\ resp' = [status |-> 400, template |-> "error.html",
                            error_message |-> MsgNoVideoId]
                /\ pc' = "done"
                /\ UNCHANGED video_id
           ELSE IF ~Truthy(extract_video_id(v))
           THEN /\ resp' = [status |-> 400, template |-> "error.html",
                            error_message |-> MsgInvalidFormat]
                /\ pc' = "done"
                /\ UNCHANGED video_id
           ELSE /\ video_id' = extract_video_id(v)
                /\ pc' = "get_transcript"
                /\ UNCHANGED resp
    /\ UNCHANGED <<env, proxy, attempts, logged, proxyErr, directErr, enumRes,
                   fetchedBy>>
    /\ UNCHANGED fnVars

\* lines 108-111: /api/transcript/<video_id> calls get_transcript with the
\* path part as it came
ApiTranscript ==
    /\ pc = "idle"
    /\ \E v \in ApiParams :
        /\ route' = "api"
        /\ param' = v
        /\ video_id' = v
    /\ pc' = "get_transcript"
    /\ UNCHANGED <<env, proxy, attempts, logged, proxyErr, directErr, enumRes,
                   fetchedBy, resp>>
    /\ UNCHANGED fnVars

\* lines 36, 39: get_transcript reads the proxy setting and picks its first step
ReadProxy ==
    /\ pc = "get_transcript"
    /\ proxy' = env
    /\ pc' = IF Truthy(env) THEN "proxy" ELSE "direct"
    /\ UNCHANGED <<env, route, param, video_id, attempts, logged, proxyErr,
                   directErr, enumRes, fetchedBy, resp>>
    /\ UNCHANGED fnVars

\* line 96: the default 'None', a str
StrNone == <<"N","o","n","e">>

\* get_transcript returned a transcript to the handler (lines 95-101, 111-117),
\* which reads the environment again to fill proxy_used
SuccessResponse(formatted) ==
    IF route = "watch"
    THEN [status |-> 200, template |-> "transcript.html", video_id |-> video_id,
          transcript |-> formatted,
          proxy_used |-> IF env = None THEN StrNone ELSE env]
    ELSE [status |-> 200, success |-> TRUE, video_id |-> video_id,
          transcript |-> formatted, proxy_used |-> env]

\* get_transcript raised: lines 103-105, 118-122
FailureResponse(message) ==
    IF route = "watch"
    THEN [status |-> 500, template |-> "error.html", error_message |-> message]
    ELSE [status |-> 500, success |-> FALSE, error |-> message]

\* lines 40-48: the retrieval through the proxy; a failure is printed and the
\* direct retrieval comes next
ProxyAttemptFatal ==
    /\ pc = "proxy"
    /\ attempts' = Append(attempts, "proxy")
    /\ \E out \in FetchOutcomes(ProxyReasons) :
        IF out.kind = "returned"
        THEN /\ fetchedBy' = "proxy"
             /\ resp' = SuccessResponse(format_transcript(out.transcript))
             /\ pc' = "done"
             /\ UNCHANGED <<logged, proxyErr>>
        ELSE /\ proxyErr' = out.reason
             /\ logged' = Append(logged, MsgProxyFailed(proxy, out.reason))
             /\ resp' = FailureResponse(out.reason)
             /\ pc' = "done"
             /\ UNCHANGED fetchedBy
    /\ UNCHANGED <<env, route, param, video_id, proxy, directErr, enumRes>>
    /\ UNCHANGED fnVars
ProxyAttempt ==
    /\ pc = "proxy"
    /\ attempts' = Append(attempts, "proxy")
    /\ \E out \in FetchOutcomes(ProxyReasons) :
        IF out.kind = "returned"
        THEN /\ fetchedBy' = "proxy"
             /\ resp' = SuccessResponse(format_transcript(out.transcript))
             /\ pc' = "done"
             /\ UNCHANGED <<logged, proxyErr>>
        ELSE /\ proxyErr' = out.reason
             /\ logged' = Append(logged, MsgProxyFailed(proxy, out.reason))
             /\ pc' = "direct"
             /\ UNCHANGED <<fetchedBy, resp>>
    /\ UNCHANGED <<env, route, param, video_id, proxy, directErr, enumRes>>
    /\ UNCHANGED fnVars

\* lines 51-54: the direct retrieval; a failure leads to the enumeration
DirectAttemptNoEnumerate ==
    /\ pc = "direct"
    /\ attempts' = Append(attempts, "direct")
    /\ \E out \in FetchOutcomes(DirectReasons) :
        IF out.kind = "returned"
        THEN /\ fetchedBy' = "direct"
             /\ resp' = SuccessResponse(format_transcript(out.transcript))
             /\ pc' = "done"
             /\ UNCHANGED directErr
        ELSE /\ directErr' = out.reason
             /\ resp' = FailureResponse(MsgNoTranscript(video_id, out.reason))
             /\ pc' = "done"
             /\ UNCHANGED fetchedBy
    /\ UNCHANGED <<env, route, param, video_id, proxy, logged, proxyErr, enumRes>>
    /\ UNCHANGED fnVars
DirectAttempt ==
    /\ pc = "direct"
    /\ attempts' = Append(attempts, "direct")
    /\ \E out \in FetchOutcomes(DirectReasons) :
        IF out.kind = "returned"
        THEN /\ fetchedBy' = "direct"
             /\ resp' = SuccessResponse(format_transcript(out.transcript))
             /\ pc' = "done"
             /\ UNCHANGED directErr
        ELSE /\ directErr' = out.reason
             /\ pc' = "enumerate"
             /\ UNCHANGED <<fetchedBy, resp>>
    /\ UNCHANGED <<env, route, param, video_id, proxy, logged, proxyErr, enumRes>>
    /\ UNCHANGED fnVars

\* lines 56-59: what the try block raises: line 59's own exception when the
\* enumeration returned, the enumeration's exception when it did not
RaisedInTry(out) ==
    IF out.kind = "langs" THEN MsgAvailable(out.langs) ELSE out.reason

\* lines 60-61: the bare except takes whatever the try block raised, line 59's
\* exception included, and raises the message built from the direct failure
EnumerateDetailOfInner(vid, direct_reason, raised) == raised
EnumerateDetail(vid, direct_reason, raised) == MsgNoTranscript(vid, direct_reason)

\* lines 55-61, and the handler's except clause that answers 500
Enumerate ==
    /\ pc = "enumerate"
    /\ attempts' = Append(attempts, "enumerate")
    /\ \E out \in EnumOutcomes :
        /\ enumRes' = out
        /\ resp' = FailureResponse(EnumerateDetail(video_id, directErr, RaisedInTry(out)))
    /\ pc' = "done"
    /\ UNCHANGED <<env, route, param, video_id, proxy, logged, proxyErr,
                   directErr, fetchedBy>>
    /\ UNCHANGED fnVars

Next ==
    \/ Watch
    \/ ApiTranscript
    \/ ReadProxy
    \/ ProxyAttempt
    \/ DirectAttempt
    \/ Enumerate

Spec == Init /\ [][Next]_vars

--------------------------------------------------------------------------
(* Properties of get_transcript and of the handlers, checked under Spec. *)

Count(seq, x) == Cardinality({i \in DOMAIN seq : seq[i] = x})

IsPrefix(a, b) == Len(a) <= Len(b) /\ SubSeq(b, 1, Len(a)) = a

FullChain == <<"proxy", "direct", "enumerate">>

\* the error message of an error response
ErrorOf(r) == IF route = "watch" THEN r.error_message ELSE r.error

\* C1: with a proxy configured, the calls of one get_transcript are a prefix of
\* proxy, direct, enumerate, none made twice; once the proxy retrieval has
\* thrown the direct retrieval follows it, and once the direct retrieval has
\* thrown too the enumeration follows that, each made exactly once.
C1_FallbackOrder ==
    /\ \A a \in {"proxy", "direct", "enumerate"} : Count(attempts, a) <= 1
    /\ Truthy(proxy) => IsPrefix(attempts, FullChain)
    /\ (pc = "done" /\ Truthy(proxy) /\ proxyErr # None)
          => /\ IsPrefix(<<"proxy", "direct">>, attempts)
             /\ Count(attempts, "direct") = 1
    /\ (pc = "done" /\ Truthy(proxy) /\ directErr # None)
          => /\ attempts = FullChain
             /\ Count(attempts, "enumerate") = 1

C1_Witness ==
    /\ pc = "done"
    /\ Truthy(proxy)
    /\ proxyErr # None
    /\ directErr # None
    /\ attempts = FullChain

\* C2: when the direct retrieval failed and the enumeration returned language
\* codes, the request fails with a message that contains every one of them.
C2_LanguagesListed ==
    (pc = "done" /\ directErr # None /\ enumRes.kind = "langs")
        => /\ resp.status = 500
           /\ \A i \in DOMAIN enumRes.langs :
                 Contains(ErrorOf(resp), enumRes.langs[i])

\* C3: when the direct retrieval failed and the enumeration failed too, the
\* request fails with the message built from the direct failure's reason; the
\* enumeration's reason and the proxy's reason are not in it.
C3_DirectReasonSurfaced ==
    (pc = "done" /\ directErr # None /\ enumRes.kind = "raised")
        => /\ resp.status = 500
           /\ ErrorOf(resp) = MsgNoTranscript(video_id, directErr)
           /\ Contains(ErrorOf(resp), directErr)
           /\ ~Contains(ErrorOf(resp), enumRes.reason)
           /\ proxyErr # None => ~Contains(ErrorOf(resp), proxyErr)

C3_Witness ==
    /\ pc = "done"
    /\ proxyErr # None
    /\ directErr # None
    /\ enumRes.kind = "raised"
    /\ Contains(ErrorOf(resp), directErr)

\* C4: a failure of the proxy retrieval is printed and nothing more: the direct
\* retrieval comes next, a transcript it returns is the successful result, and
\* no response, successful or not, carries the proxy failure's reason.
C4_ProxyFailureSwallowed ==
    proxyErr # None
        => /\ logged = <<MsgProxyFailed(proxy, proxyErr)>>
           /\ pc = "direct" \/ IsPrefix(<<"proxy", "direct">>, attempts)
           /\ (pc = "done" /\ fetchedBy = "direct")
                 => /\ resp.status = 200
                    /\ resp.transcript \in {format_transcript(t) : t \in RawSamples}
                    /\ resp.proxy_used # proxyErr
                    /\ resp.video_id # proxyErr
           /\ (pc = "done" /\ fetchedBy # "direct")
                 => /\ resp.status = 500
                    /\ ~Contains(ErrorOf(resp), proxyErr)

C4_Witness ==
    /\ pc = "done"
    /\ proxyErr # None
    /\ fetchedBy = "direct"
    /\ resp.status = 200

\* C5: on both routes a missing input, or one extract_video_id does not
\* resolve, is answered 400 with no call made on the transcript service, and
\* a failed fetch is answered 500 with the failure's message.
C5_StatusMapping ==
    pc = "done"
        => /\ (~Truthy(param) \/ extract_video_id(param) = None)
                 => resp.status = 400 /\ attempts = <<>>
           /\ directErr # None
                 => /\ resp.status = 500
                    /\ ErrorOf(resp) = MsgNoTranscript(video_id, directErr)

\* a response that names a proxy address in proxy_used
ReportsProxy(r) == Truthy(r.proxy_used) /\ r.proxy_used # StrNone

\* C10: a successful response names a proxy in proxy_used only if the
\* transcript it carries came from the proxy retrieval of that request.
C10_ProxyUsedTruthful ==
    (pc = "done" /\ resp.status = 200 /\ ReportsProxy(resp))
        => fetchedBy = "proxy"

--------------------------------------------------------------------------
(* Properties of extract_video_id, checked under SpecResolve. *)

\* C6: a supported URL built around one valid ID (a scheme or none, one of the
\* four shapes, the ID, then nothing, query parameters or path segments)
\* resolves to exactly that ID.
C6_UrlResolvesToItsId ==
    fn_pc = "return"
        => \A c \in Schemes, st \in Stems, i \in UrlIds, t \in Tails :
              fn_arg = Url(c, st, i, t) => fn_ret.id = i

\* the loose shape, a parameter named av before the ID and one after it
C6_Witness ==
    /\ fn_pc = "return"
    /\ fn_arg = Url(SchemeHttps,
                    HostWww \o LitYoutubeCom \o PathWatchQ \o ParamAv \o <<"&">> \o LitVEq,
                    IdMixed, TailAv)
    /\ fn_ret.id = IdMixed
    /\ fn_ret.via = "pattern2"

\* C7: a string of exactly 11 characters of [a-zA-Z0-9_-] is returned unchanged
\* by the first branch, the patterns not consulted.
C7_BareIdUnchanged ==
    (/\ fn_pc = "return"
     /\ Len(fn_arg) = 11
     /\ \A k \in 1..Len(fn_arg) : fn_arg[k] \in IdChars)
        => fn_ret.id = fn_arg /\ fn_ret.via = "bare"

C7_Witness ==
    /\ fn_pc = "return"
    /\ fn_arg = IdMixed
    /\ fn_ret = [id |-> IdMixed, via |-> "bare"]

--------------------------------------------------------------------------
(* Properties of format_transcript, checked under SpecFormat. *)

\* C8: the output is as long as the input, and its entry i carries the start
\* time and the text of input entry i.
C8_OrderAndLengthPreserved ==
    fn_pc = "return"
        => /\ Len(fn_ret) = Len(fn_arg)
           /\ \A i \in 1..Len(fn_arg) :
                 /\ fn_ret[i].time = fn_arg[i].start
                 /\ fn_ret[i].text = fn_arg[i].text

\* an input that is not sorted by start time, and comes out as it went in
C8_Witness ==
    /\ fn_pc = "return"
    /\ Len(fn_arg) >= 2
    /\ fn_arg[1].start > fn_arg[2].start
    /\ fn_arg[1].text # fn_arg[2].text
    /\ fn_ret[1].time = fn_arg[1].start
    /\ fn_ret[2].text = fn_arg[2].text

\* the number a run of decimal digits writes
DigitValue(ch) == CHOOSE d \in 0..9 : DigitSeq[d + 1] = ch
RECURSIVE NumberOf(_)
NumberOf(digits) ==
    IF digits = <<>> THEN 0
    ELSE 10 * NumberOf(SubSeq(digits, 1, Len(digits) - 1))
            + DigitValue(digits[Len(digits)])

\* label reads as minutes:seconds for a start of `ticks`: one colon, digits
\* around it that write floor(start / 60) and floor(start mod 60), each in two
\* digits or, where two do not hold the minutes, in as many as they take
ReadsAsMinutesSeconds(label, ticks) ==
    LET whole == ticks \div StartUnit
        colons == {k \in 1..Len(label) : label[k] = ":"}
    IN  /\ Cardinality(colons) = 1
        /\ LET c == CHOOSE k \in colons : TRUE
               mm == SubSeq(label, 1, c - 1)
               ss == SubSeq(label, c + 1, Len(label))
           IN  /\ \A k \in 1..Len(mm) : mm[k] \in DigitChars
               /\ \A k \in 1..Len(ss) : ss[k] \in DigitChars
               /\ Len(mm) >= 2
               /\ Len(mm) > 2 => mm[1] # "0"
               /\ Len(ss) = 2
               /\ NumberOf(mm) = whole \div 60
               /\ NumberOf(ss) = whole % 60

\* C9: every segment's formatted_time is minutes:seconds of its start time,
\* zero-padded to two digits at least, the minutes neither wrapped at the hour
\* nor cut at 100: 0 s is 00:00, 65 s is 01:05, 3661 s is 61:01.
C9_MinutesSecondsLabel ==
    fn_pc = "return"
        => \A i \in 1..Len(fn_arg) :
              LET t == fn_arg[i].start
                  label == fn_ret[i].formatted_time
              IN  /\ ReadsAsMinutesSeconds(label, t)
                  /\ t = 0 => label = <<"0","0",":","0","0">>
                  /\ t = 65 * StartUnit => label = <<"0","1",":","0","5">>
                  /\ t = 3661 * StartUnit => label = <<"6","1",":","0","1">>

\* 100 minutes, and a start that is not a whole number of seconds
C9_Witness ==
    /\ fn_pc = "return"
    /\ Len(fn_arg) = 2
    /\ fn_arg[1].start = 6000 * StartUnit
    /\ fn_ret[1].formatted_time = <<"1","0","0",":","0","0">>
    /\ fn_arg[2].start = 59 * StartUnit + (StartUnit - 1)
    /\ fn_ret[2].formatted_time = <<"0","0",":","5","9">>

==========================================================================
